---- MODULE Spec2Model ----
(***************************************************************************)
(* A model of teamscale_client.client.TeamscaleClient                      *)
(* (src/teamscale_client/client.py), the REST facade of the Teamscale      *)
(* Python client.                                                          *)
(*                                                                         *)
(* One action per facade method.  An action is one whole call: it takes    *)
(* the arguments, the answer of the HTTP transport (a response or a        *)
(* connection failure) and the file table of the process, and records in   *)
(* `call` everything the call did: the requests it sent, the files it      *)
(* opened, what it printed, and the value returned or the exception        *)
(* raised.  The caller then drops the result (Discard) and calls again.    *)
(*                                                                         *)
(* Strings that are assembled by the code (URLs) are sequences of atoms,   *)
(* so that string formatting is sequence concatenation and "ends in a      *)
(* slash" is a statement about the last atom.  Python values whose type    *)
(* matters are tagged records (PyStr, PyInt, PyBool, PyList, PyDict).      *)
(*                                                                         *)
(* src/teamscale_client.py is an earlier single-module revision of the     *)
(* same class (put, upload_findings, upload_metrics only); next to the     *)
(* package teamscale_client/ it is shadowed on import, and it is not part  *)
(* of this model.                                                          *)
(***************************************************************************)
EXTENDS Integers, Sequences, FiniteSets, TLC

VARIABLES
    client,       \* the TeamscaleClient instance (self)
    localOffset,  \* UTC offset, in seconds, of the time zone of the host
    openFiles,    \* descriptors of the files the client opened and are open
    pc,           \* the caller: "idle" before a call, "done" after it
    call          \* the last call: method, arguments and outcome

vars == <<client, localOffset, openFiles, pc, call>>

----------------------------------------------------------------------------
(* Bounds of the model.                                                    *)

\* Longest list of files handed to one multipart upload.
MaxFiles == 2

\* Number of descriptors the process may hold open (its descriptor limit).
MaxOpenFiles == 3

----------------------------------------------------------------------------
(* Python values.                                                          *)

None == [none |-> TRUE]
PyStr(s) == [str |-> s]
PyInt(i) == [int |-> i]
PyBool(b) == [bool |-> b]
PyList(items) == [list |-> items]
PyDict(entries) == [dict |-> entries]

\* The empty dict literal {}.
EmptyDict == PyDict([k \in {} |-> None])

\* The status code the client treats as success.
HTTP_OK == 200

----------------------------------------------------------------------------
(* Exceptions and the outcome of a call.                                   *)

NoException == [type |-> "none"]

\* The message the client formats for a failed request:
\* "ERROR: {operation} {url}: {r.status_code}:{r.text}".
ErrorMessage(operation, url, r) ==
    [operation |-> operation, url |-> url,
     status_code |-> r.status_code, body |-> r.text]

\* teamscale_client.data.ServiceError, constructed from a message.
ServiceError(message) == [type |-> "ServiceError", message |-> message]

\* What the transport raises when no response is obtained.
ConnectionError == [type |-> "ConnectionError"]

\* What open() raises for a file it cannot open.
IOError(filename, errno) == [type |-> "IOError", filename |-> filename, errno |-> errno]

NoReturn == [returned |-> FALSE]
Returned(value) == [returned |-> TRUE, value |-> value]

\* The record of a call that has not done anything yet.
EmptyFrame ==
    [requests |-> <<>>, response |-> None, opened |-> <<>>, printed |-> <<>>,
     raised |-> NoException, result |-> NoReturn]

Raise(frame, exception) == [frame EXCEPT !.raised = exception]
Return(frame, value) == [frame EXCEPT !.result = Returned(value)]

----------------------------------------------------------------------------
(* The HTTP transport (the requests library).                              *)

\* The answer of the network to one request: a connection-level failure, or
\* a response with a status code and a body text.
ConnectionFailure == [failed |-> TRUE, status_code |-> 0, text |-> <<>>]
HttpReply(status_code, text) == [failed |-> FALSE, status_code |-> status_code, text |-> text]

\* requests.get / requests.put / requests.post: sends the request once and
\* either raises or yields the response.
requests_send(request, opened, reply) ==
    LET sent == [EmptyFrame EXCEPT !.requests = <<request>>, !.opened = opened]
    IN  IF reply.failed
        THEN Raise(sent, ConnectionError)
        ELSE [sent EXCEPT !.response = [status_code |-> reply.status_code, text |-> reply.text]]

----------------------------------------------------------------------------
(* Construction and the URL builder.                                       *)

HTTPBasicAuth(username, password) == [username |-> username, password |-> password]

TeamscaleClient(url, username, password, project, sslverify) ==
    [url |-> url, username |-> username,
     auth_header |-> HTTPBasicAuth(username, password),
     project |-> project, sslverify |-> sslverify]

\* "%s/%s/" % (self.url, service_name)
get_global_service_url(self, service_name) ==
    self.url \o <<"/">> \o service_name \o <<"/">>

\* The project URL with the trailing slash of the format string left out.
get_project_service_url_no_slash(self, service_name) ==
    self.url \o <<"/", "p", "/">> \o self.project \o <<"/">> \o service_name

\* "{client.url}/p/{client.project}/{service}/"
get_project_service_url(self, service_name) ==
    self.url \o <<"/", "p", "/">> \o self.project \o <<"/">> \o service_name \o <<"/">>

----------------------------------------------------------------------------
(* Timestamp conversion.                                                   *)

\* A datetime.datetime: `wall` counts the whole seconds of its calendar
\* fields from 1970-01-01 00:00:00 on its own clock, `microsecond` is its
\* sub-second field; an aware datetime carries the UTC offset of its tzinfo.
DateTime(wall, microsecond, aware, utcoffset) ==
    [wall |-> wall, microsecond |-> microsecond, aware |-> aware, utcoffset |-> utcoffset]

\* A float, as its floor and the microseconds above the floor.
Float(floor, micros) == [floor |-> floor, micros |-> micros]

\* datetime.timetuple(): the calendar fields down to the second; a
\* struct_time has no sub-second field and no UTC offset.
timetuple(timestamp) == [wall |-> timestamp.wall]

\* time.mktime(): reads a struct_time as local time of the host.
mktime(tt) == Float(tt.wall - localOffset, 0)

\* float * int
FloatTimes(f, k) ==
    LET m == f.micros * k
    IN  Float(f.floor * k + (m \div 1000000), m % 1000000)

\* int(float): truncation toward zero.
int(f) == IF f.floor < 0 /\ f.micros > 0 THEN f.floor + 1 ELSE f.floor

_get_timestamp_ms(timestamp) ==
    LET timestamp_seconds == mktime(timetuple(timestamp))
    IN  int(FloatTimes(timestamp_seconds, 1000))

----------------------------------------------------------------------------
(* Serialization (teamscale_client.utils.to_json).                         *)

to_json(value) == [json_text_of |-> value]

----------------------------------------------------------------------------
(* The generic helpers get and put.                                        *)

ContentTypeJson == PyDict("Content-Type" :> PyStr("application/json"))
AcceptJson == PyDict("Accept" :> PyStr("application/json"))

Request(self, method, url, params, json, data, headers, files) ==
    [method |-> method, url |-> url, params |-> params, json |-> json,
     data |-> data, headers |-> headers, files |-> files,
     auth |-> self.auth_header, verify |-> self.sslverify]

get(self, url, parameters, reply) ==
    LET got == requests_send(Request(self, "GET", url, parameters, None, None, None, <<>>),
                             <<>>, reply)
    IN  IF got.raised # NoException THEN got
        ELSE IF got.response.status_code # HTTP_OK
        THEN Raise(got, ServiceError(ErrorMessage("GET", url, got.response)))
        ELSE Return(got, got.response)

\* put with the status check `>= 400` in place of `!= 200`.
put_accepting_any_2xx(self, url, json, parameters, data, reply) ==
    LET got == requests_send(Request(self, "PUT", url, parameters, json, data,
                                     ContentTypeJson, <<>>), <<>>, reply)
    IN  IF got.raised # NoException THEN got
        ELSE IF got.response.status_code >= 400
        THEN Raise(got, ServiceError(ErrorMessage("PUT", url, got.response)))
        ELSE Return(got, got.response)

\* put sending the request a second time when the first attempt fails.
put_retrying_once(self, url, json, parameters, data, reply) ==
    LET request == Request(self, "PUT", url, parameters, json, data, ContentTypeJson, <<>>)
        got == requests_send(request, <<>>, reply)
        again == [got EXCEPT !.requests = <<request, request>>]
    IN  IF got.raised # NoException THEN again
        ELSE IF got.response.status_code # HTTP_OK
        THEN Raise(again, ServiceError(ErrorMessage("PUT", url, got.response)))
        ELSE Return(got, got.response)

put(self, url, json, parameters, data, reply) ==
    LET got == requests_send(Request(self, "PUT", url, parameters, json, data,
                                     ContentTypeJson, <<>>), <<>>, reply)
    IN  IF got.raised # NoException THEN got
        ELSE IF got.response.status_code # HTTP_OK
        THEN Raise(got, ServiceError(ErrorMessage("PUT", url, got.response)))
        ELSE Return(got, got.response)

----------------------------------------------------------------------------
(* The JSON operations.                                                    *)

add_findings_group(self, name, mapping_pattern, reply) ==
    LET url == get_global_service_url(self, <<"add-external-findings-group">>)
        payload == PyList(<<[groupName |-> name, mapping |-> mapping_pattern]>>)
    IN  put(self, url, payload, None, None, reply)

add_finding_descriptions(self, descriptions, reply) ==
    LET url == get_global_service_url(self, <<"add-external-finding-descriptions">>)
        payload == PyList([i \in 1..Len(descriptions) |->
                              [typeId |-> descriptions[i].typeid,
                               description |-> descriptions[i].description,
                               enablement |-> descriptions[i].enablement]])
    IN  put(self, url, payload, None, None, reply)

update_findings_schema(self, reply) ==
    LET url == get_global_service_url(self, <<"update-findings-schema">>)
    IN  get(self, url, PyDict("projects" :> PyStr(self.project)), reply)

_upload_external_data(self, service_name, json_data, timestamp, message, partition, reply) ==
    LET service_url == get_project_service_url(self, service_name)
        parameters == PyDict(("t" :> PyInt(_get_timestamp_ms(timestamp)))
                             @@ ("message" :> PyStr(message))
                             @@ ("partition" :> PyStr(partition))
                             @@ ("skip-session" :> PyStr("true"))
                             @@ ("adjusttimestamp" :> PyStr("true")))
    IN  put(self, service_url, None, parameters, to_json(json_data), reply)

upload_findings(self, findings, timestamp, message, partition, reply) ==
    _upload_external_data(self, <<"add-external-findings">>, findings, timestamp,
                          message, partition, reply)

upload_metrics(self, metrics, timestamp, message, partition, reply) ==
    _upload_external_data(self, <<"add-external-metrics">>, metrics, timestamp,
                          message, partition, reply)

upload_none_code_metrics(self, metrics, timestamp, message, partition, reply) ==
    _upload_external_data(self, <<"add-none-code-metrics">>, metrics, timestamp,
                          message, partition, reply)

add_metric_descriptions(self, metric_descriptions, reply) ==
    LET service_url == get_global_service_url(self, <<"add-external-metric-description">>)
    IN  put(self, service_url, None, None, to_json(metric_descriptions), reply)

add_baseline(self, baseline, reply) ==
    LET service_url == get_project_service_url(self, <<"baselines">>) \o baseline.name
    IN  put(self, service_url, None, EmptyDict, to_json(baseline), reply)

----------------------------------------------------------------------------
(* Files and the multipart uploads.                                        *)

\* The files of the host that exist and can be read.
ReadableFiles == {"report.xml"}

Descriptors == 1..MaxOpenFiles

\* open(filename, 'rb') with `fds` the descriptors in use: fails for a file
\* that cannot be read and when the process has no descriptor left, and
\* otherwise yields a file object on the lowest free descriptor.
open(filename, mode, fds) ==
    IF filename \notin ReadableFiles
    THEN [raised |-> IOError(filename, "ENOENT"), handle |-> None]
    ELSE IF Descriptors \subseteq fds
    THEN [raised |-> IOError(filename, "EMFILE"), handle |-> None]
    ELSE [raised |-> NoException,
          handle |-> [fd |-> CHOOSE d \in Descriptors \ fds :
                                 \A e \in Descriptors \ fds : d <= e,
                      name |-> filename, mode |-> mode]]

\* The list comprehension with a file that cannot be opened left out.
RECURSIVE multiple_files_skipping(_, _)
multiple_files_skipping(items, fds) ==
    IF items = <<>>
    THEN [raised |-> NoException, files |-> <<>>]
    ELSE LET first == open(items[1][2], "rb", fds)
         IN  IF first.raised # NoException
             THEN multiple_files_skipping(Tail(items), fds)
             ELSE LET rest == multiple_files_skipping(Tail(items), fds \cup {first.handle.fd})
                  IN  [raised |-> rest.raised,
                       files |-> <<(<<items[1][1], first.handle>>)>> \o rest.files]

\* [(field, open(filename, 'rb')) for field, filename in items]: opens the
\* files in order and stops at the first that cannot be opened; the files
\* opened before it stay open.
RECURSIVE multiple_files(_, _)
multiple_files(items, fds) ==
    IF items = <<>>
    THEN [raised |-> NoException, files |-> <<>>]
    ELSE LET first == open(items[1][2], "rb", fds)
         IN  IF first.raised # NoException
             THEN [raised |-> first.raised, files |-> <<>>]
             ELSE LET rest == multiple_files(Tail(items), fds \cup {first.handle.fd})
                  IN  [raised |-> rest.raised,
                       files |-> <<(<<items[1][1], first.handle>>)>> \o rest.files]

\* The file objects of a list of (field, file) pairs.
Handles(files) == [i \in 1..Len(files) |-> files[i][2]]

upload_coverage_data(self, coverage_files, coverage_format, timestamp, message, partition, fds, reply) ==
    LET service_url == get_project_service_url(self, <<"external-report">>)
        parameters == PyDict(("t" :> PyInt(_get_timestamp_ms(timestamp)))
                             @@ ("message" :> PyStr(message))
                             @@ ("partition" :> PyStr(partition))
                             @@ ("format" :> PyStr(coverage_format))
                             @@ ("adjusttimestamp" :> PyStr("true")))
        opening == multiple_files([i \in 1..Len(coverage_files) |->
                                      <<"report", coverage_files[i]>>], fds)
    IN  IF opening.raised # NoException
        THEN Raise([EmptyFrame EXCEPT !.opened = Handles(opening.files)], opening.raised)
        ELSE LET got == requests_send(Request(self, "POST", service_url, parameters,
                                              None, None, None, opening.files),
                                      Handles(opening.files), reply)
             IN  IF got.raised # NoException THEN got
                 ELSE IF got.response.status_code # HTTP_OK
                 THEN Raise(got, ServiceError(ErrorMessage("GET", service_url, got.response)))
                 ELSE Return(got, got.response)

\* `architectures` is the dict's items(), in the order the dict yields them.
upload_architectures(self, architectures, timestamp, message, fds, reply) ==
    LET service_url == get_project_service_url(self, <<"architecture-upload">>)
        parameters == PyDict(("t" :> PyInt(_get_timestamp_ms(timestamp)))
                             @@ ("message" :> PyStr(message)))
        opening == multiple_files(architectures, fds)
    IN  IF opening.raised # NoException
        THEN Raise([EmptyFrame EXCEPT !.opened = Handles(opening.files)], opening.raised)
        ELSE LET got == requests_send(Request(self, "POST", service_url, parameters,
                                              None, None, None, opening.files),
                                      Handles(opening.files), reply)
             IN  IF got.raised # NoException THEN got
                 ELSE IF got.response.status_code # HTTP_OK
                 THEN Raise(got, ServiceError(ErrorMessage("GET", service_url, got.response)))
                 ELSE Return(got, got.response)

----------------------------------------------------------------------------
(* Response bodies, JSON decoding and get_baselines.                       *)

\* A body text is a sequence of tokens.
LBracket == [punct |-> "["]
RBracket == [punct |-> "]"]
Comma == [punct |-> ","]
ObjectToken(entries) == [object |-> entries]
NumberToken(n) == [number |-> n]
Junk == [junk |-> "<html>"]

IsValueToken(token) == "object" \in DOMAIN token \/ "number" \in DOMAIN token

\* The Python value of a value token.
Decoded(token) ==
    IF "object" \in DOMAIN token THEN PyDict(token.object) ELSE PyInt(token.number)

ValueError == [type |-> "ValueError"]
KeyError(key) == [type |-> "KeyError", key |-> key]
TypeError == [type |-> "TypeError"]

\* The elements between the brackets of an array: value (, value)*.
RECURSIVE json_elements(_)
json_elements(tokens) ==
    IF tokens = <<>> \/ ~IsValueToken(tokens[1])
    THEN [raised |-> ValueError, items |-> <<>>]
    ELSE IF Len(tokens) = 1
    THEN [raised |-> NoException, items |-> <<Decoded(tokens[1])>>]
    ELSE IF tokens[2] # Comma
    THEN [raised |-> ValueError, items |-> <<>>]
    ELSE LET rest == json_elements(SubSeq(tokens, 3, Len(tokens)))
         IN  [raised |-> rest.raised, items |-> <<Decoded(tokens[1])>> \o rest.items]

\* response.json(): the decoded body, or ValueError for a text that is not
\* a JSON document.
json(text) ==
    IF Len(text) = 1 /\ IsValueToken(text[1])
    THEN [raised |-> NoException, value |-> Decoded(text[1])]
    ELSE IF Len(text) >= 2 /\ text[1] = LBracket /\ text[Len(text)] = RBracket
    THEN IF Len(text) = 2
         THEN [raised |-> NoException, value |-> PyList(<<>>)]
         ELSE LET elements == json_elements(SubSeq(text, 2, Len(text) - 1))
              IN  [raised |-> elements.raised, value |-> PyList(elements.items)]
    ELSE [raised |-> ValueError, value |-> None]

\* teamscale_client.data.Baseline(name, description, timestamp=...)
Baseline(name, description, timestamp) ==
    [name |-> name, description |-> description, timestamp |-> timestamp]

\* Baseline(x['name'], x['description'], timestamp=x['timestamp']) for one x:
\* subscripting raises TypeError for an x that is no dict, KeyError for the
\* first key, in the order of evaluation, that x lacks.
baseline_of(x) ==
    IF "dict" \notin DOMAIN x
    THEN [raised |-> TypeError, baseline |-> None]
    ELSE IF "name" \notin DOMAIN x.dict
    THEN [raised |-> KeyError("name"), baseline |-> None]
    ELSE IF "description" \notin DOMAIN x.dict
    THEN [raised |-> KeyError("description"), baseline |-> None]
    ELSE IF "timestamp" \notin DOMAIN x.dict
    THEN [raised |-> KeyError("timestamp"), baseline |-> None]
    ELSE [raised |-> NoException,
          baseline |-> Baseline(x.dict["name"], x.dict["description"], x.dict["timestamp"])]

\* The list comprehension with the first two arguments of Baseline swapped.
RECURSIVE baselines_of_swapped(_)
baselines_of_swapped(items) ==
    IF items = <<>>
    THEN [raised |-> NoException, baselines |-> <<>>]
    ELSE LET first == baseline_of(items[1])
         IN  IF first.raised # NoException
             THEN [raised |-> first.raised, baselines |-> <<>>]
             ELSE LET rest == baselines_of_swapped(Tail(items))
                      b == first.baseline
                  IN  [raised |-> rest.raised,
                       baselines |-> <<Baseline(b.description, b.name, b.timestamp)>>
                                     \o rest.baselines]

\* [Baseline(...) for x in items]
RECURSIVE baselines_of(_)
baselines_of(items) ==
    IF items = <<>>
    THEN [raised |-> NoException, baselines |-> <<>>]
    ELSE LET first == baseline_of(items[1])
         IN  IF first.raised # NoException
             THEN [raised |-> first.raised, baselines |-> <<>>]
             ELSE LET rest == baselines_of(Tail(items))
                  IN  [raised |-> rest.raised,
                       baselines |-> <<first.baseline>> \o rest.baselines]

\* What `for x in value` iterates over: the elements of a list, the keys of
\* a dict (strings); a number is not iterable.
iterate(value) ==
    IF "list" \in DOMAIN value
    THEN [raised |-> NoException, items |-> value.list]
    ELSE IF "dict" \in DOMAIN value
    THEN [raised |-> NoException,
          items |-> [i \in 1..Cardinality(DOMAIN value.dict) |-> PyStr("key")]]
    ELSE [raised |-> TypeError, items |-> <<>>]

get_baselines(self, reply) ==
    LET service_url == get_project_service_url(self, <<"baselines">>)
        parameters == PyDict("detail" :> PyBool(TRUE))
        headers == AcceptJson
        got == requests_send(Request(self, "GET", service_url, parameters, None, None,
                                     headers, <<>>), <<>>, reply)
    IN  IF got.raised # NoException THEN got
        ELSE IF got.response.status_code # HTTP_OK
        THEN Raise(got, ServiceError(ErrorMessage("GET", service_url, got.response)))
        ELSE LET printed == [got EXCEPT !.printed = <<got.response.text>>]
                 decoded == json(got.response.text)
                 items == iterate(decoded.value)
                 built == baselines_of(items.items)
             IN  IF decoded.raised # NoException THEN Raise(printed, decoded.raised)
                 ELSE IF items.raised # NoException THEN Raise(printed, items.raised)
                 ELSE IF built.raised # NoException THEN Raise(printed, built.raised)
                 ELSE Return(printed, built.baselines)

----------------------------------------------------------------------------
(* The inputs the calls are drawn from.                                    *)

BaseUrl == <<"http://ts:8080">>
Project == <<"demo">>

\* UTC offsets of the host's time zone: UTC and UTC+1.
LocalOffsets == {0, 3600}

\* Naive datetimes before and after the epoch, with and without a sub-second
\* part, and aware datetimes in UTC and in UTC+1.
Timestamps ==
    {DateTime(w, us, FALSE, 0) : w \in {-2, 86400}, us \in {0, 500000}}
        \cup {DateTime(86400, 0, TRUE, 0), DateTime(86400, 0, TRUE, 3600)}

Messages == {"m"}
Partitions == {"P1", "P2"}
CoverageFormats == {"JACOCO"}

StatusCodes == {200, 201, 500}

FullObject(n) ==
    ("name" :> <<"b", n>>) @@ ("description" :> <<"d", n>>) @@ ("timestamp" :> 1000 * n)
PartialObject == ("name" :> <<"b", 3>>) @@ ("description" :> <<"d", 3>>)
EmptyObject == [k \in {} |-> 0]

Bodies ==
    { <<Junk>>,
      <<LBracket, RBracket>>,
      <<LBracket, ObjectToken(FullObject(1)), RBracket>>,
      <<LBracket, ObjectToken(FullObject(1)), Comma, ObjectToken(FullObject(2)), RBracket>>,
      <<LBracket, ObjectToken(FullObject(1)), Comma, RBracket>>,
      <<LBracket, ObjectToken(PartialObject), RBracket>>,
      <<LBracket, NumberToken(42), RBracket>>,
      <<ObjectToken(FullObject(1))>>,
      <<ObjectToken(EmptyObject)>> }

Replies == {ConnectionFailure} \cup {HttpReply(c, b) : c \in StatusCodes, b \in Bodies}

\* URLs a caller hands to get and put directly.
UserUrls == { BaseUrl \o <<"/", "update-findings-schema", "/">>,
              <<"http://elsewhere", "/", "x">> }
UserParameters == {None, PyDict("projects" :> PyStr(Project))}
UserJson == {None, PyList(<<"x">>)}

FindingDescriptions ==
    {[typeid |-> "t1", description |-> "d1", enablement |-> "RED"]}
DescriptionLists == {<<>>} \cup {<<d>> : d \in FindingDescriptions}

Payloads == {<<"entry">>}

BaselineNames == {<<"rel-2.0">>, <<"b1">>}
Baselines == {Baseline(n, "d", 1000) : n \in BaselineNames}

Files == {"report.xml", "missing.xml"}
FileLists == UNION {[1..n -> Files] : n \in 0..MaxFiles}

ArchitecturePaths == {"a.architecture", "b.architecture"}
ArchitectureItems ==
    {items \in UNION {[1..n -> ArchitecturePaths \X Files] : n \in 0..MaxFiles} :
        \A i, j \in 1..Len(items) : i # j => items[i][1] # items[j][1]}

----------------------------------------------------------------------------
(* State and actions.                                                      *)

Call(method, args, outcome) == [method |-> method, args |-> args, outcome |-> outcome]
NoCall == Call("none", None, EmptyFrame)

Init ==
    /\ client = TeamscaleClient(BaseUrl, "user", "secret", Project, TRUE)
    /\ localOffset \in LocalOffsets
    /\ openFiles = {}
    /\ pc = "idle"
    /\ call = NoCall

\* The call ends: its record is handed to the caller.  No facade method
\* opens files except the multipart uploads, whose file table is set there.
Finish(method, args, outcome) ==
    /\ pc' = "done"
    /\ call' = Call(method, args, outcome)
    /\ UNCHANGED <<client, localOffset>>

\* The descriptors in use when a multipart upload has ended.  The client
\* never closes a file it opened.  A file object is closed by the runtime
\* when it is reclaimed: after a normal return a reference-counting runtime
\* has reclaimed the list of files (reclaimed = TRUE), another has not; after
\* an exception the traceback still refers to the frame and its files.
FilesAfter(outcome, reclaimed) ==
    IF outcome.raised = NoException /\ reclaimed
    THEN openFiles
    ELSE openFiles \cup {outcome.opened[i].fd : i \in 1..Len(outcome.opened)}

Get ==
    /\ pc = "idle"
    /\ \E url \in UserUrls, parameters \in UserParameters, reply \in Replies :
         Finish("get", [url |-> url, parameters |-> parameters],
                get(client, url, parameters, reply))
    /\ UNCHANGED openFiles

Put ==
    /\ pc = "idle"
    /\ \E url \in UserUrls, body \in UserJson, parameters \in UserParameters, reply \in Replies :
         Finish("put", [url |-> url, json |-> body, parameters |-> parameters],
                put(client, url, body, parameters, None, reply))
    /\ UNCHANGED openFiles

AddFindingsGroup ==
    /\ pc = "idle"
    /\ \E reply \in Replies :
         Finish("add_findings_group", [name |-> "g1", mapping_pattern |-> "t.*"],
                add_findings_group(client, "g1", "t.*", reply))
    /\ UNCHANGED openFiles

AddFindingDescriptions ==
    /\ pc = "idle"
    /\ \E descriptions \in DescriptionLists, reply \in Replies :
         Finish("add_finding_descriptions", [descriptions |-> descriptions],
                add_finding_descriptions(client, descriptions, reply))
    /\ UNCHANGED openFiles

UpdateFindingsSchema ==
    /\ pc = "idle"
    /\ \E reply \in Replies :
         Finish("update_findings_schema", None, update_findings_schema(client, reply))
    /\ UNCHANGED openFiles

UploadFindings ==
    /\ pc = "idle"
    /\ \E findings \in Payloads, timestamp \in Timestamps, message \in Messages,
          partition \in Partitions, reply \in Replies :
         Finish("upload_findings",
                [data |-> findings, timestamp |-> timestamp, message |-> message,
                 partition |-> partition],
                upload_findings(client, findings, timestamp, message, partition, reply))
    /\ UNCHANGED openFiles

UploadMetrics ==
    /\ pc = "idle"
    /\ \E metrics \in Payloads, timestamp \in Timestamps, message \in Messages,
          partition \in Partitions, reply \in Replies :
         Finish("upload_metrics",
                [data |-> metrics, timestamp |-> timestamp, message |-> message,
                 partition |-> partition],
                upload_metrics(client, metrics, timestamp, message, partition, reply))
    /\ UNCHANGED openFiles

UploadNoneCodeMetrics ==
    /\ pc = "idle"
    /\ \E metrics \in Payloads, timestamp \in Timestamps, message \in Messages,
          partition \in Partitions, reply \in Replies :
         Finish("upload_none_code_metrics",
                [data |-> metrics, timestamp |-> timestamp, message |-> message,
                 partition |-> partition],
                upload_none_code_metrics(client, metrics, timestamp, message, partition, reply))
    /\ UNCHANGED openFiles

AddMetricDescriptions ==
    /\ pc = "idle"
    /\ \E metric_descriptions \in Payloads, reply \in Replies :
         Finish("add_metric_descriptions", [metric_descriptions |-> metric_descriptions],
                add_metric_descriptions(client, metric_descriptions, reply))
    /\ UNCHANGED openFiles

UploadCoverageData ==
    /\ pc = "idle"
    /\ \E coverage_files \in FileLists, coverage_format \in CoverageFormats,
          timestamp \in Timestamps, message \in Messages, partition \in Partitions,
          reply \in Replies, reclaimed \in BOOLEAN :
         LET outcome == upload_coverage_data(client, coverage_files, coverage_format,
                                             timestamp, message, partition, openFiles, reply)
         IN  /\ Finish("upload_coverage_data",
                       [files |-> coverage_files, format |-> coverage_format,
                        timestamp |-> timestamp, message |-> message,
                        partition |-> partition],
                       outcome)
             /\ openFiles' = FilesAfter(outcome, reclaimed)

UploadArchitectures ==
    /\ pc = "idle"
    /\ \E architectures \in ArchitectureItems, timestamp \in Timestamps,
          message \in Messages, reply \in Replies, reclaimed \in BOOLEAN :
         LET outcome == upload_architectures(client, architectures, timestamp, message,
                                             openFiles, reply)
         IN  /\ Finish("upload_architectures",
                       [files |-> [i \in 1..Len(architectures) |-> architectures[i][2]],
                        architectures |-> architectures,
                        timestamp |-> timestamp, message |-> message],
                       outcome)
             /\ openFiles' = FilesAfter(outcome, reclaimed)

GetBaselines ==
    /\ pc = "idle"
    /\ \E reply \in Replies :
         Finish("get_baselines", None, get_baselines(client, reply))
    /\ UNCHANGED openFiles

AddBaseline ==
    /\ pc = "idle"
    /\ \E baseline \in Baselines, reply \in Replies :
         Finish("add_baseline", [baseline |-> baseline],
                add_baseline(client, baseline, reply))
    /\ UNCHANGED openFiles

\* The caller drops the response or the exception of the last call.  The
\* files the call left open are closed if and when the runtime reclaims
\* them (collected), and stay open otherwise.
Discard ==
    /\ pc = "done"
    /\ pc' = "idle"
    /\ call' = NoCall
    /\ \E collected \in BOOLEAN : openFiles' = IF collected THEN {} ELSE openFiles
    /\ UNCHANGED <<client, localOffset>>

Next ==
    \/ Get
    \/ Put
    \/ AddFindingsGroup
    \/ AddFindingDescriptions
    \/ UpdateFindingsSchema
    \/ UploadFindings
    \/ UploadMetrics
    \/ UploadNoneCodeMetrics
    \/ AddMetricDescriptions
    \/ UploadCoverageData
    \/ UploadArchitectures
    \/ GetBaselines
    \/ AddBaseline
    \/ Discard

Spec == Init /\ [][Next]_vars

----------------------------------------------------------------------------
(* Vocabulary of the properties.                                           *)

Done == pc = "done"
Outcome == call.outcome
Sent == call.outcome.requests
GotResponse == call.outcome.response # None
Status == call.outcome.response.status_code
RaisedType == call.outcome.raised.type

MultipartUploads == {"upload_coverage_data", "upload_architectures"}
ExternalUploads == {"upload_findings", "upload_metrics", "upload_none_code_metrics"}
GlobalOperations ==
    {"add_findings_group", "add_finding_descriptions", "update_findings_schema",
     "add_metric_descriptions"}
ProjectOperations == ExternalUploads \cup MultipartUploads \cup {"get_baselines"}

ServiceNames ==
    { <<"add-external-findings-group">>, <<"add-external-finding-descriptions">>,
      <<"update-findings-schema">>, <<"add-external-findings">>,
      <<"add-external-metrics">>, <<"add-none-code-metrics">>,
      <<"add-external-metric-description">>, <<"external-report">>,
      <<"architecture-upload">>, <<"baselines">> }

GlobalUrl(service) == BaseUrl \o <<"/">> \o service \o <<"/">>
ProjectUrl(service) == BaseUrl \o <<"/", "p", "/">> \o Project \o <<"/">> \o service \o <<"/">>
EndsWithSlash(url) == url # <<>> /\ url[Len(url)] = "/"

\* The instant a datetime denotes, in seconds since the epoch: an aware
\* datetime by its own UTC offset, a naive one as local time of the host.
Instant(timestamp) ==
    Float(timestamp.wall - (IF timestamp.aware THEN timestamp.utcoffset ELSE localOffset),
          timestamp.microsecond)

----------------------------------------------------------------------------
(* C1 *)

----------------------------------------------------------------------------
(* C2 *)

\* C2: every file a multipart upload opens is closed by the time the call
\* has ended, so that no file opened by the client is ever left open.
C2_HandlesClosed == openFiles = {}

----------------------------------------------------------------------------
(* C3 *)

\* C3: a call never sends more than one request, and a call that ended with
\* a response (200 or not) or with a transport failure has sent exactly one.
C3_ExactlyOneRequest ==
    Done => /\ Len(Sent) <= 1
            /\ (GotResponse \/ RaisedType = "ConnectionError") => Len(Sent) = 1

\* An upload of metrics whose request failed in the transport was sent once.
C3_Witness ==
    /\ Done /\ call.method = "upload_metrics" /\ RaisedType = "ConnectionError"
    /\ Len(Sent) = 1

----------------------------------------------------------------------------
(* C4 *)

\* The body is a JSON array of objects that each have the three keys.
WellFormedBaselines(text) ==
    /\ Len(text) >= 2 /\ text[1] = LBracket /\ text[Len(text)] = RBracket
    /\ Len(text) = 2 \/ Len(text) % 2 = 1
    /\ \A i \in 2..(Len(text) - 1) :
          IF i % 2 = 1 THEN text[i] = Comma
          ELSE /\ "object" \in DOMAIN text[i]
               /\ {"name", "description", "timestamp"} \subseteq DOMAIN text[i].object

\* One Baseline per array element, in order, with that element's fields.
ExpectedBaselines(text) ==
    [k \in 1..((Len(text) - 1) \div 2) |->
        [name |-> text[2 * k].object["name"],
         description |-> text[2 * k].object["description"],
         timestamp |-> text[2 * k].object["timestamp"]]]

----------------------------------------------------------------------------
(* C5 *)

\* C5 as stated, for the operations that build their URL (all but the
\* generic get and put, which send to the URL of the caller): the URL of
\* every request, the PUT of add_baseline included, is a project-scoped or a
\* global service URL and ends with a slash.
C5_EveryUrlEndsWithSlash ==
    (Done /\ call.method \notin {"get", "put"})
        => \A i \in 1..Len(Sent) :
               /\ \E s \in ServiceNames : Sent[i].url \in {GlobalUrl(s), ProjectUrl(s)}
               /\ EndsWithSlash(Sent[i].url)

\* C5 as amended: the requests of the global operations go to a global
\* service URL and those of the project operations other than add_baseline
\* to a project-scoped one, each ending with a slash; add_baseline sends to
\* the project-scoped baselines URL followed by the baseline's name, with no
\* slash after it; get and put send to the URL the caller gave.
C5_ServiceUrls ==
    Done => \A i \in 1..Len(Sent) :
                LET url == Sent[i].url
                IN  CASE call.method \in GlobalOperations ->
                            /\ \E s \in ServiceNames : url = GlobalUrl(s)
                            /\ EndsWithSlash(url)
                      [] call.method \in ProjectOperations ->
                            /\ \E s \in ServiceNames : url = ProjectUrl(s)
                            /\ EndsWithSlash(url)
                      [] call.method = "add_baseline" ->
                            url = ProjectUrl(<<"baselines">>) \o call.args.baseline.name
                      [] OTHER -> url = call.args.url

\* add_baseline has sent a request whose URL does not end with a slash.
C5_Witness ==
    /\ Done /\ call.method = "add_baseline" /\ Len(Sent) = 1
    /\ ~EndsWithSlash(Sent[1].url)

----------------------------------------------------------------------------
(* C6 *)

BooleanFlags == {"skip-session", "adjusttimestamp", "detail"}

\* C6: in the query parameters of every request, each boolean flag is the
\* string "true" or the string "false".
C6_FlagsAreStrings ==
    Done => \A i \in 1..Len(Sent) :
                Sent[i].params # None
                    => \A k \in DOMAIN Sent[i].params.dict \cap BooleanFlags :
                           Sent[i].params.dict[k] \in {PyStr("true"), PyStr("false")}

----------------------------------------------------------------------------
(* C7 *)

ExternalService(method) ==
    CASE method = "upload_findings" -> <<"add-external-findings">>
      [] method = "upload_metrics" -> <<"add-external-metrics">>
      [] method = "upload_none_code_metrics" -> <<"add-none-code-metrics">>

\* The whole seconds of a float, rounded down.
Floor(f) == f.floor

\* C7: upload_findings, upload_metrics and upload_none_code_metrics send one
\* PUT to the project-scoped URL of their service, with the parameters
\* message and partition as given, skip-session and adjusttimestamp "true",
\* and t the instant of the timestamp in milliseconds since the epoch (to
\* the whole second, rounded either way).
C7_ExternalUploadRequest ==
    (Done /\ call.method \in ExternalUploads)
        => /\ Len(Sent) = 1
           /\ Sent[1].method = "PUT"
           /\ Sent[1].url = ProjectUrl(ExternalService(call.method))
           /\ DOMAIN Sent[1].params.dict =
                  {"t", "message", "partition", "skip-session", "adjusttimestamp"}
           /\ Sent[1].params.dict["message"] = PyStr(call.args.message)
           /\ Sent[1].params.dict["partition"] = PyStr(call.args.partition)
           /\ Sent[1].params.dict["skip-session"] = PyStr("true")
           /\ Sent[1].params.dict["adjusttimestamp"] = PyStr("true")
           /\ Sent[1].params.dict["t"] \in
                  { PyInt(1000 * Floor(Instant(call.args.timestamp))),
                    PyInt(1000 * int(Instant(call.args.timestamp))) }

----------------------------------------------------------------------------
(* C8 *)

TimestampOperations == ExternalUploads \cup MultipartUploads

\* C8: _get_timestamp_ms of a timestamp is a multiple of 1000, namely 1000
\* times the seconds since the epoch of its instant, truncated toward zero.
C8_TruncatedTowardZero ==
    (Done /\ call.method \in TimestampOperations)
        => /\ _get_timestamp_ms(call.args.timestamp) % 1000 = 0
           /\ _get_timestamp_ms(call.args.timestamp) = 1000 * int(Instant(call.args.timestamp))

----------------------------------------------------------------------------
(* C9 *)

\* C9: the operation and the URL recorded in a ServiceError are the HTTP
\* method and the URL of the request that failed.
C9_ErrorNamesRequest ==
    (Done /\ RaisedType = "ServiceError")
        => /\ Len(Sent) = 1
           /\ Outcome.raised.message.operation = Sent[1].method
           /\ Outcome.raised.message.url = Sent[1].url

----------------------------------------------------------------------------
(* C10 *)

\* C10: in a multipart upload every file of the list is opened, in order,
\* before the POST: a request that was sent carries all of them, and when a
\* file cannot be opened the call ends with that IOError, on that file, and
\* has sent no request.
C10_FilesOpenedBeforePost ==
    (Done /\ call.method \in MultipartUploads)
        => LET files == call.args.files
               opened == Outcome.opened
           IN  /\ (\E i \in 1..Len(files) : files[i] \notin ReadableFiles)
                      => RaisedType = "IOError"
               /\ RaisedType = "IOError"
                      => /\ Sent = <<>>
                         /\ Outcome.result = NoReturn
                         /\ Len(opened) < Len(files)
                         /\ Outcome.raised.filename = files[Len(opened) + 1]
               /\ Sent # <<>>
                      => /\ Len(opened) = Len(files)
                         /\ \A i \in 1..Len(files) :
                                /\ opened[i].name = files[i]
                                /\ Sent[1].files[i][2] = opened[i]

\* An architecture upload whose second file could not be opened: the first
\* was opened, IOError was raised and nothing was sent.
C10_Witness ==
    /\ Done /\ call.method = "upload_architectures" /\ RaisedType = "IOError"
    /\ Len(Outcome.opened) = 1 /\ Sent = <<>>

====
